---- MODULE Spec2Model ----
(***************************************************************************)
(* Model of the duplicate file searcher (src/src/main.cpp).                *)
(*                                                                         *)
(* A run walks a directory (search), buckets the non-empty regular files   *)
(* by size (size_map), hashes every bucket of two or more files            *)
(* (hash_check) and prints every group of files with equal hash            *)
(* (duplicate_file_search).  The file system is part of the state: while   *)
(* the run is hashing, another process may resize, remove or lock a file.  *)
(*                                                                         *)
(* Sizes are scaled: the 32 KiB read buffer is buffersize bytes and the    *)
(* 1 KiB head+tail window is buffersize_partial bytes, keeping             *)
(* 0 < halfsize, 2 * halfsize = buffersize_partial < buffersize, so that a *)
(* file above the threshold has bytes strictly between the two windows and *)
(* is streamed in more than one chunk.                                     *)
(***************************************************************************)
EXTENDS Integers, Sequences, FiniteSets, TLC

\* ------------------------------------------------------------------ bounds
NumFiles == 3       \* regular files in the directory
MaxByte == 1        \* bytes are 0..MaxByte
MaxFaults == 2      \* file-system changes made by other processes during a run

\* ------------------------------------------------------- program constants
buffersize == 3             \* main.cpp:77, 1<<15 scaled
buffersize_partial == 2     \* main.cpp:97, 1<<10 scaled
halfsize == buffersize_partial \div 2
SizeBits == 64              \* width of std::size_t
UnitCount == 5              \* entries of unit[]
GroupSlots == 7             \* entries of s[]
LenWrap == 65536            \* std::uint16_t len wraps modulo 2^16

SmallLen == 1               \* a file size at or below the threshold
LargeLen == buffersize + 1  \* the smallest file size above the threshold

Byte == 0..MaxByte

\* ----------------------------------------------------------------- helpers
Min(S) == CHOOSE x \in S : \A y \in S : x <= y

Take(s, n) == SubSeq(s, 1, IF n < Len(s) THEN n ELSE Len(s))
Drop(s, n) == SubSeq(s, n + 1, Len(s))
Range(s) == {s[k] : k \in 1..Len(s)}

\* buf with src stored at offset off (0-based), as istream::read stores it.
Store(buf, off, src) ==
    [k \in 1..Len(buf) |->
        IF k > off /\ k <= off + Len(src) THEN src[k - off] ELSE buf[k]]

\* ranges::sort on a vector of distinct paths.
RECURSIVE sort(_)
sort(s) ==
    IF Len(s) = 0 THEN <<>>
    ELSE LET m == Min(Range(s))
             k == CHOOSE j \in 1..Len(s) : s[j] = m
         IN  <<m>> \o sort(SubSeq(s, 1, k - 1) \o SubSeq(s, k + 1, Len(s)))

\* A slip: m[key] = {p}, which forgets the files already under the key.
MapPushOverwrite(m, key, p) ==
    IF key \in DOMAIN m THEN [m EXCEPT ![key] = <<p>>]
    ELSE m @@ (key :> <<p>>)

\* std::map::operator[] followed by emplace_back: m[key].emplace_back(p).
MapPush(m, key, p) ==
    IF key \in DOMAIN m THEN [m EXCEPT ![key] = Append(@, p)]
    ELSE m @@ (key :> <<p>>)

\* The keys of a std::map in iteration order (ascending).
RECURSIVE KeysAsc(_)
KeysAsc(S) ==
    IF S = {} THEN <<>> ELSE LET k == Min(S) IN <<k>> \o KeysAsc(S \ {k})

EmptyMap == [k \in {} |-> <<>>]

\* xxh::xxhash3<128> over a byte string, taken as collision-free: an injective
\* numbering of byte strings.  std::map orders its keys by this number.
RECURSIVE xxhash3(_)
xxhash3(bytes) ==
    IF Len(bytes) = 0 THEN 0
    ELSE (Head(bytes) + 1) + (MaxByte + 2) * xxhash3(Tail(bytes))

\* ---------------------------------------------------------- prettify_bytes
\* std::countr_zero(std::bit_floor(size)): floor(log2 size), SizeBits for 0.
RECURSIVE Log2Floor(_)
Log2Floor(n) == IF n <= 1 THEN 0 ELSE 1 + Log2Floor(n \div 2)

CountrZeroBitFloor(size) == IF size = 0 THEN SizeBits ELSE Log2Floor(size)

\* while (size) { s[len++] = size%1000; size /= 1000; }: the final len.
RECURSIVE DigitGroups(_)
DigitGroups(size) == IF size = 0 THEN 0 ELSE 1 + DigitGroups(size \div 1000)

\* The indices prettify_bytes uses: base into unit[], and the largest index
\* into s[] (written by s[len++], read by s[--len] with len a uint16).
prettify_bytes(size) ==
    LET base == CountrZeroBitFloor(size) \div 10
        len  == DigitGroups(size)
        top  == (len - 1) % LenWrap
    IN  [size |-> size, base |-> base, top |-> top,
         inbounds |-> base \in 0..(UnitCount - 1) /\ top \in 0..(GroupSlots - 1)]

NoCall == [size |-> -1, base |-> 0, top |-> 0, inbounds |-> TRUE]

\* ------------------------------------------------------------ the file system
\* A regular file: its bytes, whether it still exists, whether it can be opened.
File(d) == [data |-> d, present |-> TRUE, perm |-> TRUE]

\* std::ifstream fin(file, std::ios_base::binary) succeeds.
Opens(f) == f.present /\ f.perm

RECURSIVE SeqsOf(_, _)
SeqsOf(S, n) ==
    IF n = 0 THEN {<<>>}
    ELSE {Append(s, b) : s \in SeqsOf(S, n - 1), b \in S}

Zeros(n) == [k \in 1..n |-> 0]

\* Where two large files may differ: in the head window, right after it
\* (between the windows), in the tail window.
Marks == {1, halfsize + 1, LargeLen}

\* Contents a file starts with: empty, every string of SmallLen bytes, and the
\* strings of LargeLen bytes with at most one non-zero byte, at one of Marks.
FileData ==
    {<<>>} \cup SeqsOf(Byte, SmallLen)
           \cup {Zeros(LargeLen)}
           \cup {[Zeros(LargeLen) EXCEPT ![k] = b] : k \in Marks, b \in Byte \ {0}}

\* Sizes another process may give a file: emptied, cut or grown to the
\* threshold, cut or grown to the size above it.  New bytes are zero.
ResizeLens == {0, buffersize, LargeLen}

Resized(d, n) == IF n <= Len(d) THEN Take(d, n) ELSE d \o Zeros(n - Len(d))

\* ------------------------------------------------------------------ reading
\* Lines 84-86: one bounded read of the whole file, hash of the bytes read.
SmallRead(buf, f) ==
    LET got == IF Opens(f) THEN Take(f.data, buffersize) ELSE <<>>
        nb  == Store(buf, 0, got)
        gcount == Len(got)
    IN  [buffer |-> nb, got |-> got, input |-> SubSeq(nb, 1, gcount),
         hash |-> xxhash3(SubSeq(nb, 1, gcount))]

\* Lines 100-105: head read, seekg(-halfsize, end), tail read, hash of the
\* first buffersize_partial bytes of the buffer.  A read that comes up short
\* sets failbit, after which seekg and the second read do nothing.
PartialRead(buf, f) ==
    LET first == buffersize_partial - halfsize
        head  == IF Opens(f) THEN Take(f.data, first) ELSE <<>>
        good  == Opens(f) /\ Len(head) = first /\ Len(f.data) >= halfsize
        tail  == IF good
                 THEN SubSeq(f.data, Len(f.data) - halfsize + 1, Len(f.data))
                 ELSE <<>>
        nb    == Store(Store(buf, 0, head), halfsize, tail)
    IN  [buffer |-> nb, got |-> head \o tail,
         input |-> SubSeq(nb, 1, buffersize_partial),
         hash |-> xxhash3(SubSeq(nb, 1, buffersize_partial))]

\* Lines 117-118: while (fin.read(buffer, buffersize).gcount()) state.update(...)
RECURSIVE Stream(_, _, _)
Stream(buf, rest, state) ==
    IF Len(rest) = 0 THEN [buffer |-> buf, state |-> state]
    ELSE LET chunk == Take(rest, buffersize)
         IN  Stream(Store(buf, 0, chunk), Drop(rest, buffersize), state \o chunk)

\* Lines 115-119: state.reset(), stream the file, state.digest().
FullRead(buf, f) ==
    LET r == Stream(buf, IF Opens(f) THEN f.data ELSE <<>>, <<>>)
    IN  [buffer |-> r.buffer, got |-> IF Opens(f) THEN f.data ELSE <<>>,
         input |-> r.state, hash |-> xxhash3(r.state)]

\* -------------------------------------------------------------------- state
VARIABLES
    fsys,       \* the directory: path -> file
    buffer,     \* the thread_local read buffer of hash_check
    pc,         \* where the run is
    seen,       \* entries recursive_directory_iterator has produced
    tot, empty, tot_size, emptylist,    \* search's counters and printed list
    size_map,   \* size -> paths, in traversal order
    cur,        \* the size_map key the loop of duplicate_file_search is at
    num, rdsize,
    out,        \* the groups printed so far
    res,        \* hash_check's result for the current bucket, not yet printed
    filelist, idx, map1, map2, keys1, files1,   \* hash_check's locals
    tier,       \* the branch hash_check took for the current bucket
    opens,      \* path -> how often each tier opened it
    fp1,        \* path -> its tier-1 hash, -1 before it has one
    last,       \* the latest hashing of a file
    touched,    \* files another process changed or locked during the run
    changed,    \* those of them whose bytes changed or that were removed
    faults,     \* how many more such changes may happen
    pretty,     \* the latest prettify_bytes call
    stderr,     \* what main's catch clauses printed
    run,        \* 1 in a first run, 2 in a run repeated on the same directory
    junk,       \* the indeterminate buffer bytes this run has hashed, if any
    prev        \* what the first run printed, once a second run has started

vars == <<fsys, buffer, pc, seen, tot, empty, tot_size, emptylist, size_map, cur,
          num, rdsize, out, res, filelist, idx, map1, map2, keys1, files1, tier,
          opens, fp1, last, touched, changed, faults, pretty, stderr,
          run, junk, prev>>

searchVars == <<seen, tot, empty, tot_size, emptylist, size_map>>
reportVars == <<num, rdsize, out>>
localVars  == <<filelist, idx, map1, map2, keys1, files1, tier>>
histVars   == <<opens, fp1, last, junk>>
twiceVars  == <<run, prev>>
envVars    == <<fsys, touched, changed, faults, twiceVars>>

NoRead == [path |-> 0, tier |-> "none", opened |-> FALSE, got |-> <<>>, input |-> <<>>]

NoRun == [pc |-> "none", out |-> <<>>, rdsize |-> 0, junk |-> <<>>]

\* Line 78: make_unique_for_overwrite leaves the buffer's bytes indeterminate.
\* A byte nothing has been stored in is Junk until the program hashes it; what
\* it then turns out to hold is any byte (Held).
Junk == -1

Fresh == [k \in 1..buffersize |-> Junk]

Held(buf, input) ==
    IF Junk \notin Range(input) THEN {buf}
    ELSE {nb \in [1..buffersize -> Byte \cup {Junk}] :
            \A k \in 1..buffersize :
                IF buf[k] = Junk /\ k <= buffersize_partial
                THEN nb[k] \in Byte ELSE nb[k] = buf[k]}

\* The files are named in the order of their contents: the names matter only
\* to the final sort, and the traversal meets them in any order.
Rank(f) == 2 * xxhash3(f.data) + (IF f.perm THEN 0 ELSE 1)

InitWith(n, files, budget) ==
    /\ fsys \in [1..n -> files]
    /\ \A p, q \in 1..n : p < q => Rank(fsys[p]) <= Rank(fsys[q])
    /\ faults = budget
    /\ buffer = Fresh
    /\ pc = "search"
    /\ seen = {}
    /\ tot = 0 /\ empty = 0 /\ tot_size = 0 /\ emptylist = <<>>
    /\ size_map = EmptyMap
    /\ cur = 0
    /\ num = 0 /\ rdsize = 0
    /\ out = <<>> /\ res = <<>>
    /\ filelist = <<>> /\ idx = 1
    /\ map1 = EmptyMap /\ map2 = EmptyMap
    /\ keys1 = <<>> /\ files1 = <<>>
    /\ tier = "none"
    /\ opens = [p \in DOMAIN fsys |-> [small |-> 0, partial |-> 0, full |-> 0, failed |-> 0]]
    /\ fp1 = [p \in DOMAIN fsys |-> -1]
    /\ last = NoRead
    /\ touched = {} /\ changed = {}
    /\ pretty = NoCall
    /\ stderr = <<>>
    /\ run = 1
    /\ junk = <<>>
    /\ prev = NoRun

\* A directory of NumFiles readable files; other processes make up to MaxFaults
\* changes while the run hashes.
Init == InitWith(NumFiles, {File(d) : d \in FileData}, MaxFaults)

\* One file more, one change fewer.
InitWide == InitWith(NumFiles + 1, {File(d) : d \in FileData}, MaxFaults - 1)

\* A directory nobody changes, in which some files cannot be opened by the
\* user running the program.
InitTwice ==
    InitWith(NumFiles, {[File(d) EXCEPT !.perm = r] : d \in FileData, r \in BOOLEAN}, 0)

\* The paths of the directory's regular files.
Paths == DOMAIN fsys

\* fs::file_size(path)
file_size(p) == Len(fsys[p].data)

\* Where a prettify_bytes call with indices out of its arrays can leave the run:
\* it returns garbage and the run goes on, or the process dies.
AfterPretty(r, next) == IF r.inbounds THEN {next} ELSE {next, "crashed"}

\* --------------------------------------------------------------- search
\* Lines 141-154: one directory entry.
SearchEntry(p) ==
    /\ pc = "search"
    /\ p \notin seen
    /\ seen' = seen \cup {p}
    /\ tot' = tot + 1
    /\ IF file_size(p) # 0
       THEN /\ tot_size' = tot_size + file_size(p)
            /\ size_map' = MapPush(size_map, file_size(p), p)
            /\ UNCHANGED <<empty, emptylist>>
       ELSE /\ empty' = empty + 1
            /\ emptylist' = Append(emptylist, p)
            /\ UNCHANGED <<tot_size, size_map>>
    /\ UNCHANGED <<envVars, buffer, pc, cur, reportVars, res, localVars, histVars,
                   pretty, stderr>>

\* Line 156: the directory is exhausted, the totals are printed.
SearchDone ==
    /\ pc = "search"
    /\ seen = Paths
    /\ pretty' = prettify_bytes(tot_size)
    /\ pc' \in AfterPretty(pretty', "loop")
    /\ UNCHANGED <<envVars, buffer, searchVars, cur, reportVars, res, localVars,
                   histVars, stderr>>

\* ------------------------------------------------- duplicate_file_search
\* The size_map keys the loop at line 177 has not visited yet.
NextKeys == {k \in DOMAIN size_map : k > cur}

\* Line 181: if (paths.size() <= 1) continue;
SkipBucket ==
    /\ pc = "loop"
    /\ NextKeys # {}
    /\ Len(size_map[Min(NextKeys)]) <= 1
    /\ cur' = Min(NextKeys)
    /\ UNCHANGED <<envVars, buffer, pc, searchVars, reportVars, res, localVars,
                   histVars, pretty, stderr>>

\* Line 81: the branch is chosen by the size the first file has now.
SmallBucket(first) == file_size(first) <= buffersize

\* Lines 184-185 and 79-81: hash_check is entered.  fs::file_size throws a
\* filesystem_error for a file that no longer exists; nothing catches it before
\* main (lines 218-221), which prints it and ends the run.
HashCheckEnter ==
    /\ pc = "loop"
    /\ NextKeys # {}
    /\ Len(size_map[Min(NextKeys)]) > 1
    /\ cur' = Min(NextKeys)
    /\ filelist' = size_map[cur']
    /\ idx' = 1
    /\ map1' = EmptyMap /\ map2' = EmptyMap
    /\ keys1' = <<>> /\ files1' = <<>>
    /\ res' = <<>>
    /\ LET first == filelist'[1] IN
       IF ~fsys[first].present
       THEN /\ pc' = "aborted"
            /\ tier' = "none"
            /\ stderr' = Append(stderr, [what |-> "filesystem_error", path |-> first])
       ELSE /\ tier' = IF SmallBucket(first) THEN "small" ELSE "partial"
            /\ pc' = tier'
            /\ stderr' = stderr
    /\ UNCHANGED <<envVars, buffer, searchVars, reportVars, histVars, pretty>>

\* What a hashing step leaves in the history variables.
Hashed(p, t, r) ==
    /\ opens' = [opens EXCEPT ![p][t] = @ + 1,
                              ![p].failed = IF Opens(fsys[p]) THEN @ ELSE @ + 1]
    /\ last' = [path |-> p, tier |-> t, opened |-> Opens(fsys[p]),
                got |-> r.got, input |-> r.input]

\* A slip: the test lets a group of one file through.
MultipleOrOne(files) == Len(files) >= 1

\* if (files.size() > 1) at lines 90 and 122.
Multiple(files) == Len(files) > 1

\* A slip: every tier-1 group goes on to the full tier.
Multiple1Always(files) == TRUE

\* if (files1.size() > 1) at line 112.
Multiple1(files) == Len(files) > 1

\* The groups of m with more than one file, appended to r in key order.
RECURSIVE EmplaceMultiple(_, _, _)
EmplaceMultiple(m, keys, r) ==
    IF Len(keys) = 0 THEN r
    ELSE EmplaceMultiple(m, Tail(keys),
                         IF Multiple(m[Head(keys)]) THEN Append(r, m[Head(keys)]) ELSE r)

AfterBucket(r) == IF r = <<>> THEN "loop" ELSE "emit"

\* ------------------------------------------------------------- hash_check
\* Lines 83-88: one file of a small bucket.
HashSmallFile ==
    /\ pc = "small"
    /\ idx <= Len(filelist)
    /\ LET p == filelist[idx]
           r == SmallRead(buffer, fsys[p])
       IN  /\ buffer' = r.buffer
           /\ map1' = MapPush(map1, r.hash, p)
           /\ fp1' = [fp1 EXCEPT ![p] = r.hash]
           /\ junk' = junk
           /\ Hashed(p, "small", r)
    /\ idx' = idx + 1
    /\ UNCHANGED <<envVars, pc, searchVars, cur, reportVars, res, filelist, map2,
                   keys1, files1, tier, pretty, stderr>>

\* Lines 89-92: the groups of map1 are the result.
SmallCollect ==
    /\ pc = "small"
    /\ idx > Len(filelist)
    /\ res' = EmplaceMultiple(map1, KeysAsc(DOMAIN map1), res)
    /\ pc' = AfterBucket(res')
    /\ UNCHANGED <<envVars, buffer, searchVars, cur, reportVars, localVars,
                   histVars, pretty, stderr>>

\* Lines 95-107: one file of a large bucket, head and tail only.
HashPartialFile ==
    /\ pc = "partial"
    /\ idx <= Len(filelist)
    /\ \E held \in Held(buffer, PartialRead(buffer, fsys[filelist[idx]]).input) :
       LET p == filelist[idx]
           r == PartialRead(held, fsys[p])
       IN  /\ buffer' = r.buffer
           /\ map1' = MapPush(map1, r.hash, p)
           /\ fp1' = [fp1 EXCEPT ![p] = r.hash]
           /\ junk' = IF held = buffer THEN junk ELSE SubSeq(held, 1, buffersize_partial)
           /\ Hashed(p, "partial", r)
    /\ idx' = idx + 1
    /\ UNCHANGED <<envVars, pc, searchVars, cur, reportVars, res, filelist, map2,
                   keys1, files1, tier, pretty, stderr>>

\* Lines 109-111: the loop over map1's values starts.
PartialDone ==
    /\ pc = "partial"
    /\ idx > Len(filelist)
    /\ keys1' = KeysAsc(DOMAIN map1)
    /\ files1' = <<>>
    /\ idx' = 1
    /\ pc' = "full"
    /\ UNCHANGED <<envVars, buffer, searchVars, cur, reportVars, res, filelist,
                   map1, map2, tier, histVars, pretty, stderr>>

\* Lines 111-112: the next value of map1; hash_check returns after the last.
FullNext ==
    /\ pc = "full"
    /\ files1 = <<>>
    /\ IF keys1 = <<>>
       THEN /\ pc' = AfterBucket(res)
            /\ UNCHANGED <<keys1, files1, idx>>
       ELSE /\ keys1' = Tail(keys1)
            /\ files1' = IF Multiple1(map1[Head(keys1)]) THEN map1[Head(keys1)] ELSE <<>>
            /\ idx' = 1
            /\ pc' = pc
    /\ UNCHANGED <<envVars, buffer, searchVars, cur, reportVars, res, filelist,
                   map1, map2, tier, histVars, pretty, stderr>>

\* Lines 114-120: one file of a tier-1 group, streamed in full.
HashFullFile ==
    /\ pc = "full"
    /\ files1 # <<>>
    /\ idx <= Len(files1)
    /\ LET p == files1[idx]
           r == FullRead(buffer, fsys[p])
       IN  /\ buffer' = r.buffer
           /\ map2' = MapPush(map2, r.hash, p)
           /\ junk' = junk
           /\ Hashed(p, "full", r)
    /\ idx' = idx + 1
    /\ UNCHANGED <<envVars, pc, searchVars, cur, reportVars, res, filelist, map1,
                   keys1, files1, tier, fp1, pretty, stderr>>

\* Lines 121-124: the groups of map2 are results, map2 is cleared.
FullCollect ==
    /\ pc = "full"
    /\ files1 # <<>>
    /\ idx > Len(files1)
    /\ res' = EmplaceMultiple(map2, KeysAsc(DOMAIN map2), res)
    /\ map2' = EmptyMap
    /\ files1' = <<>>
    /\ UNCHANGED <<envVars, buffer, pc, searchVars, cur, reportVars, filelist, idx,
                   map1, keys1, tier, histVars, pretty, stderr>>

\* A slip: every copy is counted, the one to keep included.
RedundantAll(filesize, n) == filesize * n

\* Line 188: the bytes a group of n files of one size holds in excess
\* (64-bit arithmetic; the sizes here stay far below 2^64).
Redundant(filesize, n) == filesize * (n - 1)

\* Line 187: num++
NextNum(n) == n + 1

\* Lines 186-195: one group of res is counted, sorted and printed.
EmitGroup ==
    /\ pc = "emit"
    /\ res # <<>>
    /\ LET paths == Head(res) IN
        /\ num' = NextNum(num)
        /\ rdsize' = rdsize + Redundant(cur, Len(paths))
        /\ out' = Append(out, [num |-> num', count |-> Len(paths),
                               filesize |-> cur, paths |-> sort(paths)])
    /\ pretty' = prettify_bytes(cur)
    /\ res' = Tail(res)
    /\ pc' \in AfterPretty(pretty', AfterBucket(res'))
    /\ UNCHANGED <<envVars, buffer, searchVars, cur, localVars, histVars, stderr>>

\* Lines 198-199: size_map is exhausted, the redundant total is printed.
Finish ==
    /\ pc = "loop"
    /\ NextKeys = {}
    /\ pretty' = prettify_bytes(rdsize)
    /\ pc' \in AfterPretty(pretty', "done")
    /\ UNCHANGED <<envVars, buffer, searchVars, cur, reportVars, res, localVars,
                   histVars, stderr>>

\* ------------------------------------------------------- other processes
Hashing == pc \in {"loop", "small", "partial", "full"}

\* The file the run's next step opens or stats, if it does.  A change to a
\* file is seen by the run only at its next access to that file and commutes
\* with every step before it, so changes are taken right before that access.
NextAccess ==
    IF pc = "loop"
    THEN IF NextKeys # {} /\ Len(size_map[Min(NextKeys)]) > 1
         THEN {size_map[Min(NextKeys)][1]} ELSE {}
    ELSE IF pc \in {"small", "partial"}
    THEN IF idx <= Len(filelist) THEN {filelist[idx]} ELSE {}
    ELSE IF pc = "full" /\ files1 # <<>> /\ idx <= Len(files1)
    THEN {files1[idx]} ELSE {}

Fault(p, f, content) ==
    /\ Hashing
    /\ faults > 0
    /\ p \in NextAccess
    /\ fsys[p].present
    /\ fsys' = [fsys EXCEPT ![p] = f]
    /\ touched' = touched \cup {p}
    /\ changed' = IF content THEN changed \cup {p} ELSE changed
    /\ faults' = faults - 1
    /\ UNCHANGED <<twiceVars, buffer, pc, searchVars, cur, reportVars, res,
                   localVars, histVars, pretty, stderr>>

\* The file's permissions are revoked: it cannot be opened any more.
Deny(p) == fsys[p].perm /\ Fault(p, [fsys[p] EXCEPT !.perm = FALSE], FALSE)

\* The file is removed.
Vanish(p) == Fault(p, [fsys[p] EXCEPT !.present = FALSE], TRUE)

\* The file is truncated or extended to n bytes.
Resize(p, n) ==
    /\ n # Len(fsys[p].data)
    /\ Fault(p, [fsys[p] EXCEPT !.data = Resized(@, n)], TRUE)

\* The program is run again on the same directory: a new process, whose
\* buffer is again indeterminate, and a traversal in whatever order.
Rerun ==
    /\ run = 1
    /\ pc = "done"
    /\ prev' = [pc |-> pc, out |-> out, rdsize |-> rdsize, junk |-> junk]
    /\ run' = 2
    /\ buffer' = Fresh
    /\ junk' = <<>>
    /\ pc' = "search"
    /\ seen' = {}
    /\ tot' = 0 /\ empty' = 0 /\ tot_size' = 0 /\ emptylist' = <<>>
    /\ size_map' = EmptyMap
    /\ cur' = 0
    /\ num' = 0 /\ rdsize' = 0
    /\ out' = <<>> /\ res' = <<>>
    /\ filelist' = <<>> /\ idx' = 1
    /\ map1' = EmptyMap /\ map2' = EmptyMap
    /\ keys1' = <<>> /\ files1' = <<>>
    /\ tier' = "none"
    /\ opens' = [p \in Paths |-> [small |-> 0, partial |-> 0, full |-> 0, failed |-> 0]]
    /\ fp1' = [p \in Paths |-> -1]
    /\ last' = NoRead
    /\ pretty' = NoCall
    /\ stderr' = <<>>
    /\ UNCHANGED <<fsys, touched, changed, faults>>

Next ==
    \/ \E p \in Paths : SearchEntry(p)
    \/ SearchDone
    \/ SkipBucket
    \/ HashCheckEnter
    \/ HashSmallFile
    \/ SmallCollect
    \/ HashPartialFile
    \/ PartialDone
    \/ FullNext
    \/ HashFullFile
    \/ FullCollect
    \/ EmitGroup
    \/ Finish
    \/ \E p \in Paths : Deny(p)
    \/ \E p \in Paths : Vanish(p)
    \/ \E p \in Paths, n \in ResizeLens : Resize(p, n)

Spec == Init /\ [][Next]_vars

\* Two runs on a directory that nobody changes.
NextTwice ==
    \/ \E p \in Paths : SearchEntry(p)
    \/ SearchDone
    \/ SkipBucket
    \/ HashCheckEnter
    \/ HashSmallFile
    \/ SmallCollect
    \/ HashPartialFile
    \/ PartialDone
    \/ FullNext
    \/ HashFullFile
    \/ FullCollect
    \/ EmitGroup
    \/ Finish
    \/ Rerun

SpecTwice == InitTwice /\ [][NextTwice]_vars

SpecWide == InitWide /\ [][Next]_vars

\* ====================================================================
\* Properties
\* ====================================================================
InGroup(p) == \E k \in 1..Len(out) : p \in Range(out[k].paths)

SameGroup(p, q) == \E k \in 1..Len(out) : {p, q} \subseteq Range(out[k].paths)

\* The size search recorded for p (0 for an empty file or one not yet seen).
RecSize(p) ==
    IF \E k \in DOMAIN size_map : p \in Range(size_map[k])
    THEN CHOOSE k \in DOMAIN size_map : p \in Range(size_map[k])
    ELSE 0

data(p) == fsys[p].data

\* Nothing touched the directory during the run (its files start readable).
Undisturbed == touched = {} /\ \A p \in Paths : Opens(fsys[p])

RECURSIVE SumRedundant(_)
SumRedundant(groups) ==
    IF Len(groups) = 0 THEN 0
    ELSE Head(groups).filesize * (Head(groups).count - 1) + SumRedundant(Tail(groups))

\* C1 (Completeness): when a run over readable, unchanged files is done, any
\* two non-empty files with the same bytes are in the same printed group,
\* whether their bucket took the small path or the partial + full path.
C1_Completeness ==
    (pc = "done" /\ Undisturbed) =>
        \A p, q \in Paths :
            (p # q /\ data(p) = data(q) /\ Len(data(p)) > 0) => SameGroup(p, q)

\* A finished undisturbed run with a pair of equal small files and a pair of
\* equal large files, each pair printed as a group.
C1_Witness ==
    /\ pc = "done" /\ Undisturbed
    /\ \E p, q \in Paths :
        /\ p # q /\ data(p) = data(q) /\ Len(data(p)) \in 1..buffersize
        /\ fp1[p] # -1 /\ SameGroup(p, q)
    /\ \E p, q \in Paths :
        /\ p # q /\ data(p) = data(q) /\ Len(data(p)) > buffersize
        /\ opens[p].full = 1 /\ SameGroup(p, q)

\* C2 (Full-tier soundness), as claimed: when a run is done and no file's
\* bytes changed under it, two files of one printed group have the same bytes.
C2_Soundness ==
    (pc = "done" /\ changed = {}) =>
        \A p, q \in Paths : SameGroup(p, q) => data(p) = data(q)

\* The part of C2 the code keeps: with every file readable and unchanged,
\* group members have equal bytes; a large decoy that differs only between
\* the windows shares the partial hash and is split off by the full hash.
SoundWhenUndisturbed ==
    (pc = "done" /\ Undisturbed) =>
        \A p, q \in Paths : SameGroup(p, q) => data(p) = data(q)

\* C3, as claimed: a file whose open failed at some tier is in no printed group.
C3_FailedNeverGrouped ==
    \A p \in Paths : opens[p].failed > 0 => ~InGroup(p)

Reported(p) == \E k \in 1..Len(stderr) : stderr[k].path = p

\* C4, as claimed: with one file failing, the run is not aborted, the failure
\* is reported with its path, and the equal files among the others are grouped.
C4_FailureIsolated ==
    Cardinality(touched) <= 1 =>
        /\ pc # "aborted"
        /\ pc = "done" =>
            /\ \A p \in Paths : opens[p].failed > 0 => Reported(p)
            /\ \A p, q \in Paths \ touched :
                (p # q /\ data(p) = data(q) /\ Len(data(p)) > 0) => SameGroup(p, q)

\* C5, as claimed: the bytes hashed for a file that opened are exactly the
\* bytes read from it in that read.
C5_HashOfBytesRead == last.opened => last.input = last.got

\* C6: every printed group has at least two members, all with the recorded
\* size the group was printed with, and no path is printed twice.
C6_GroupsWellFormed ==
    \A k \in 1..Len(out) :
        /\ out[k].count >= 2
        /\ Len(out[k].paths) = out[k].count
        /\ \A i \in 1..Len(out[k].paths) : RecSize(out[k].paths[i]) = out[k].filesize
        /\ \A i, j \in 1..Len(out[k].paths) : i # j => out[k].paths[i] # out[k].paths[j]
        /\ \A l \in 1..Len(out) :
            l # k => Range(out[k].paths) \cap Range(out[l].paths) = {}

\* A finished run that printed two groups, of files of different sizes.
C6_Witness ==
    /\ pc = "done"
    /\ Len(out) = 2
    /\ out[1].filesize < out[2].filesize
    /\ out[1].count = 2 /\ out[2].count = 2

\* C7: the redundant total is the sum over the printed groups of
\* filesize * (count - 1), the groups are numbered 1, 2, 3, ... as printed,
\* and files a = b # c of one size give the single group {a, b} and a total
\* of that size.
C7_RedundantTotal ==
    /\ rdsize = SumRedundant(out)
    /\ num = Len(out)
    /\ \A k \in 1..Len(out) : out[k].num = k
    /\ \A a, b, c \in Paths :
        (/\ pc = "done" /\ Undisturbed
         /\ a < b /\ c \notin {a, b}
         /\ \A p \in Paths \ {a, b, c} : Len(data(p)) = 0
         /\ Len(data(a)) > 0
         /\ Len(data(a)) = Len(data(c))
         /\ data(a) = data(b) /\ data(b) # data(c))
        => /\ out = <<[num |-> 1, count |-> 2, filesize |-> Len(data(a)),
                       paths |-> <<a, b>>]>>
           /\ rdsize = Len(data(a))

\* A finished run with two printed groups, numbered 1 and 2.
C7_Witness ==
    /\ pc = "done"
    /\ Len(out) = 2
    /\ out[1].num = 1 /\ out[2].num = 2
    /\ rdsize = out[1].filesize + out[2].filesize
    /\ rdsize > 2

Sorted(s) == \A i, j \in 1..Len(s) : i < j => s[i] < s[j]

\* C8, as claimed: a second run on the unchanged directory, whatever order the
\* traversal takes (and with the same bytes in any indeterminate buffer byte
\* it hashes), prints the same groups in the same order with the same numbers
\* and the same total; groups ascend by size and members by path.
C8_SameOutputTwice ==
    /\ \A k, l \in 1..Len(out) : k < l => out[k].filesize <= out[l].filesize
    /\ \A k \in 1..Len(out) : Sorted(out[k].paths)
    /\ (run = 2 /\ pc = "done" /\ junk = prev.junk) =>
            (out = prev.out /\ rdsize = prev.rdsize)

\* The part of C8 the code keeps: with every file readable the two runs agree.
SameOutputWhenReadable ==
    (run = 2 /\ pc = "done" /\ \A p \in Paths : Opens(fsys[p])) =>
        (out = prev.out /\ rdsize = prev.rdsize)

\* hash_check is through with the bucket of size k.
Finished(k) == k < cur \/ (k = cur /\ pc \notin {"small", "partial", "full", "emit"})

\* C9: the full tier runs only in a bucket that took the partial tier, and
\* reads a file (once) only if another file of the bucket has the same
\* partial hash; a bucket on the small path has every file read exactly
\* once, and its groups are the sets of two or more files of equal hash.
C9_TierOrdering ==
    /\ pc = "full" => tier = "partial"
    /\ \A p \in Paths :
        /\ opens[p].small + opens[p].partial <= 1
        /\ opens[p].small = 1 => opens[p].full = 0
        /\ opens[p].full > 0 =>
            /\ opens[p].full = 1
            /\ opens[p].partial = 1
            /\ \E q \in Paths \ {p} :
                RecSize(q) = RecSize(p) /\ opens[q].partial = 1 /\ fp1[q] = fp1[p]
    /\ \A k \in DOMAIN size_map :
        (Finished(k) /\ Len(size_map[k]) > 1 /\ opens[size_map[k][1]].small = 1) =>
            /\ \A p \in Range(size_map[k]) :
                opens[p] = [small |-> 1, partial |-> 0, full |-> 0,
                            failed |-> opens[p].failed]
            /\ \A p, q \in Range(size_map[k]) :
                p # q => (SameGroup(p, q) <=> fp1[p] = fp1[q])

\* A finished run in which a large file was alone with its partial hash and
\* was not read again, while two others of its size were read in full.
C9_Witness ==
    /\ pc = "done"
    /\ \E p, q \in Paths :
        /\ opens[p] = [small |-> 0, partial |-> 1, full |-> 0, failed |-> 0]
        /\ RecSize(q) = RecSize(p)
        /\ opens[q].full = 1

\* C10, as claimed: every prettify_bytes call keeps base within unit[] and
\* len within s[].
C10_PrettifyInBounds == pretty.inbounds

====
